---- MODULE Spec2Model ----
(***************************************************************************)
(* US State Income Map (src/app.py): one run of the Streamlit script,      *)
(* from load_data() through the aggregation, the choropleth layer, the     *)
(* map delivery and the county table.                                      *)
(*                                                                         *)
(* Representation.                                                         *)
(*   - A column name is a sequence of one-character strings, so that       *)
(*     strip(), lower(), replace() and the regular expression of           *)
(*     pick_income_col act on characters as Python does.                   *)
(*   - A raw CSV cell is a string (read_csv(dtype=str)); the string "NaN"  *)
(*     stands for the missing value read_csv produces for an empty field.  *)
(*   - A numeric cell (after pd.to_numeric) is Num(v) or NaN.              *)
(*   - A table is a sequence of columns [name, cells]; all columns of a    *)
(*     table have the same number of cells (its rows).                     *)
(***************************************************************************)
EXTENDS Integers, Sequences, FiniteSets, TLC

VARIABLES
    csv,             \* the remote county income CSV, as read_csv parses it
    state_list,      \* the remote state list, as pd.DataFrame builds it
    states_geo,      \* the remote GeoJSON: the names of its features, in order
    pc,              \* position of the script run
    income,          \* the county income table (load_data's `income`)
    abbrs,           \* the state list table (load_data's `abbrs`)
    c2015, c1989,    \* pick_income_col results
    cstate, ccounty, \* first_match results
    name_col, a2_col,\* find_col results
    errors,          \* what st.error has shown, in order
    name_to_alpha2,  \* dict: full state name -> alpha-2 code
    state_medians,   \* the groupby result, one record per group
    styles,          \* style_function's result per feature processed
    tooltips,        \* on_each_feature's (v2015, v1989) per feature processed
    scale_args,      \* every value handed to colormap(...)
    attempted,       \* delivery calls made, in order
    delivered,       \* delivery calls that returned
    chosen_state,    \* st.selectbox result
    df_show          \* rows handed to st.dataframe

vars == <<csv, state_list, states_geo, pc, income, abbrs, c2015, c1989, cstate, ccounty,
          name_col, a2_col, errors, name_to_alpha2, state_medians, styles, tooltips,
          scale_args, attempted, delivered, chosen_state, df_show>>

----------------------------------------------------------------------------
(* Characters and Python's str methods.                                     *)

UpperCase == <<"A", "B", "C", "D", "E", "F", "G", "H", "I", "J", "K", "L", "M",
               "N", "O", "P", "Q", "R", "S", "T", "U", "V", "W", "X", "Y", "Z">>
LowerCase == <<"a", "b", "c", "d", "e", "f", "g", "h", "i", "j", "k", "l", "m",
               "n", "o", "p", "q", "r", "s", "t", "u", "v", "w", "x", "y", "z">>
DigitChars == <<"0", "1", "2", "3", "4", "5", "6", "7", "8", "9">>

\* What str.strip() removes and what \s matches (the ASCII part).
WhiteSpace == {" ", "\t", "\n", "\r", "\f"}

Range(s) == {s[i] : i \in DOMAIN s}

\* None is no column name: a name holds one character per position.
None == <<"None">>

\* The lower-case letter of each upper-case letter.
LowerOf ==
    [ch \in Range(UpperCase) |-> LowerCase[CHOOSE i \in DOMAIN UpperCase : UpperCase[i] = ch]]

lower_char(ch) == IF ch \in DOMAIN LowerOf THEN LowerOf[ch] ELSE ch

\* str.lower()
lower(s) == [i \in DOMAIN s |-> lower_char(s[i])]

\* str.strip(): drop leading and trailing whitespace.
strip(s) ==
    LET keep == {i \in DOMAIN s : s[i] \notin WhiteSpace}
    IN  IF keep = {} THEN <<>>
        ELSE LET lo == CHOOSE i \in keep : \A j \in keep : i <= j
                 hi == CHOOSE i \in keep : \A j \in keep : j <= i
             IN  SubSeq(s, lo, hi)

\* str.replace(ch, ""): delete every occurrence of one character.
RECURSIVE remove_char(_, _)
remove_char(s, ch) ==
    IF s = <<>> THEN <<>>
    ELSE IF Head(s) = ch THEN remove_char(Tail(s), ch)
    ELSE <<Head(s)>> \o remove_char(Tail(s), ch)

\* c.lower().replace(" ", "").replace("_", "").replace("-", "")
canon_key(s) == remove_char(remove_char(remove_char(lower(s), " "), "_"), "-")

\* str(year) as the f-string inserts it into the pattern.
RECURSIVE year_digits(_)
year_digits(n) ==
    IF n < 10 THEN <<DigitChars[n + 1]>>
    ELSE year_digits(n \div 10) \o <<DigitChars[(n % 10) + 1]>>

----------------------------------------------------------------------------
(* re.compile(fr"(?i)^income[\s_-]?{year}[a-z]?$").match(c)                 *)

PatLiteral == <<"i", "n", "c", "o", "m", "e">>
PatSeparators == WhiteSpace \cup {"_", "-"}

\* Does the literal `lit` occur in s at position p (1-based), ignoring case?
lit_at(s, p, lit) ==
    /\ p + Len(lit) - 1 <= Len(s)
    /\ \A k \in DOMAIN lit : lower_char(s[p + k - 1]) = lower_char(lit[k])

\* The set of positions the matcher can be at after an optional item that
\* starts at p and accepts one character of `class`.
opt_class(s, p, class) ==
    {p} \cup (IF p <= Len(s) /\ s[p] \in class THEN {p + 1} ELSE {})

\* `$` without re.M: at the end, or just before a final newline.
at_end(s, p) == p = Len(s) + 1 \/ (p = Len(s) /\ s[p] = "\n")

\* The pattern without its optional trailing letter, income[\s_-]?{year}$:
\* what pat_match must differ from for "income-1989a" to be picked.
pat_match_no_suffix(s, year) ==
    /\ lit_at(s, 1, PatLiteral)
    /\ \E p1 \in opt_class(s, Len(PatLiteral) + 1, PatSeparators) :
         /\ lit_at(s, p1, year_digits(year))
         /\ at_end(s, p1 + Len(year_digits(year)))

pat_match(s, year) ==
    /\ lit_at(s, 1, PatLiteral)
    /\ \E p1 \in opt_class(s, Len(PatLiteral) + 1, PatSeparators) :
         /\ lit_at(s, p1, year_digits(year))
         /\ \E p2 \in opt_class(s, p1 + Len(year_digits(year)),
                                Range(LowerCase) \cup Range(UpperCase)) :
              at_end(s, p2)

----------------------------------------------------------------------------
(* Cells and pd.to_numeric(..., errors="coerce").                           *)

Num(v) == [nan |-> FALSE, v |-> v]
NaN == [nan |-> TRUE, v |-> 0]

\* The numerals that occur in the modelled tables, with their values.  All
\* are multiples of 10, so that the mean of two of them is an integer.
NumeralValue ==
    ("10" :> 10) @@ ("20" :> 20) @@ ("30" :> 30) @@ ("40" :> 40) @@
    ("50" :> 50) @@ ("60" :> 60)

\* A string that parses becomes its number; anything else, the missing
\* value included, becomes NaN (errors="coerce").
\* A conversion that reads a cell that does not parse as zero: what
\* errors="coerce" must differ from for such cells to stay out of a median.
to_numeric_zero(cell) ==
    IF cell \in DOMAIN NumeralValue THEN Num(NumeralValue[cell]) ELSE Num(0)

to_numeric(cell) ==
    IF cell \in DOMAIN NumeralValue THEN Num(NumeralValue[cell]) ELSE NaN

\* pd.to_numeric(series, errors="coerce").notna().sum()
notna_count(cells) ==
    Cardinality({i \in DOMAIN cells : ~to_numeric(cells[i]).nan})

----------------------------------------------------------------------------
(* Tables: df.columns, df[c], df.rename(columns=...).                       *)

columns(df) == [i \in DOMAIN df |-> df[i].name]

\* Positions of the columns labelled c; df[c] is a Series only when there is
\* exactly one (with a repeated label pandas returns a DataFrame).
positions(df, c) == {i \in DOMAIN df : df[i].name = c}

series(df, c) == df[CHOOSE i \in positions(df, c) : TRUE].cells

\* df.rename(columns=mapper): every label that is a key gets its new name.
rename(df, mapper) ==
    [i \in DOMAIN df |->
        [name |-> IF df[i].name \in DOMAIN mapper THEN mapper[df[i].name]
                  ELSE df[i].name,
         cells |-> df[i].cells]]

\* df[c] = f(df[c]) for a uniquely labelled column c.
assign(df, c, new_cells) ==
    [i \in DOMAIN df |->
        IF df[i].name = c THEN [name |-> c, cells |-> new_cells] ELSE df[i]]

\* [x for x in seq if keep], as the positions kept, in order.
RECURSIVE filter_positions(_, _, _)
filter_positions(n, k, keep) ==
    IF k > n THEN <<>>
    ELSE (IF k \in keep THEN <<k>> ELSE <<>>) \o filter_positions(n, k + 1, keep)

----------------------------------------------------------------------------
(* The names load_data gives the resolved columns, and the alias lists.     *)

Income2015 == <<"i", "n", "c", "o", "m", "e", "-", "2", "0", "1", "5">>
Income1989 == <<"i", "n", "c", "o", "m", "e", "-", "1", "9", "8", "9">>
State == <<"s", "t", "a", "t", "e">>
County == <<"c", "o", "u", "n", "t", "y">>
Name == <<"n", "a", "m", "e">>
Alpha2 == <<"a", "l", "p", "h", "a", "2">>

\* first_match(income, ["state", "state_abbr", "stateabbr"])
StateOptions == <<<<"s", "t", "a", "t", "e">>,
                  <<"s", "t", "a", "t", "e", "_", "a", "b", "b", "r">>,
                  <<"s", "t", "a", "t", "e", "a", "b", "b", "r">>>>
\* first_match(income, ["county", "county_name"])
CountyOptions == <<<<"c", "o", "u", "n", "t", "y">>,
                   <<"c", "o", "u", "n", "t", "y", "_", "n", "a", "m", "e">>>>
\* find_col(abbrs, "name", "state", "statename")
NameAliases == <<<<"n", "a", "m", "e">>,
                 <<"s", "t", "a", "t", "e">>,
                 <<"s", "t", "a", "t", "e", "n", "a", "m", "e">>>>
\* find_col(abbrs, "abbreviation", "alpha-2", "alpha2", "abbr", "code")
Alpha2Aliases == <<<<"a", "b", "b", "r", "e", "v", "i", "a", "t", "i", "o", "n">>,
                   <<"a", "l", "p", "h", "a", "-", "2">>,
                   <<"a", "l", "p", "h", "a", "2">>,
                   <<"a", "b", "b", "r">>,
                   <<"c", "o", "d", "e">>>>

----------------------------------------------------------------------------
(* load_data's resolvers.                                                   *)

TypeError == <<"TypeError">>

\* max(cands, key=...): the first candidate, in list order, whose key no
\* other candidate exceeds.
first_max(df, cands) ==
    LET key(i) == notna_count(df[i].cells)
        best == {k \in DOMAIN cands :
                    \A j \in DOMAIN cands : key(cands[j]) <= key(cands[k])}
    IN  cands[CHOOSE k \in best : \A j \in best : k <= j]

\* pick_income_col(df, year).  The key function evaluates df[c] for every
\* candidate; a candidate label that occurs twice makes pd.to_numeric raise.
pick_income_col(df, year) ==
    LET cands == filter_positions(Len(df), 1,
                     {i \in DOMAIN df : pat_match(df[i].name, year)})
    IN  IF cands = <<>> THEN None
        ELSE IF \E k \in DOMAIN cands :
                    Cardinality(positions(df, df[cands[k]].name)) > 1
        THEN TypeError
        ELSE df[first_max(df, cands)].name

\* {key(c): c for c in df.columns}.get(k), with keys[i] the key of column
\* i: the last column with key k, or None.
last_with_key(df, keys, k) ==
    LET hits == {i \in DOMAIN keys : keys[i] = k}
    IN  IF hits = {} THEN None
        ELSE df[CHOOSE i \in hits : \A j \in hits : j <= i].name

\* The first position of `wanted` whose element is among `keys`, or 0.
first_index(wanted, keys) ==
    LET hits == {k \in DOMAIN wanted : \E i \in DOMAIN keys : keys[i] = wanted[k]}
    IN  IF hits = {} THEN 0 ELSE CHOOSE k \in hits : \A j \in hits : k <= j

\* first_match(df, options): aliases are looked up as written among the
\* lowercased column names.
first_match(df, options) ==
    LET low == [i \in DOMAIN df |-> lower(df[i].name)]
        k == first_index(options, low)
    IN  IF k = 0 THEN None ELSE last_with_key(df, low, options[k])

\* find_col(df, *aliases): both sides are reduced by canon_key.
find_col(df, aliases) ==
    LET canon == [i \in DOMAIN df |-> canon_key(df[i].name)]
        wanted == [k \in DOMAIN aliases |-> canon_key(aliases[k])]
        k == first_index(wanted, canon)
    IN  IF k = 0 THEN None ELSE last_with_key(df, canon, wanted[k])

----------------------------------------------------------------------------
(* Python's order on the strings that occur as cells (code points: upper    *)
(* case before lower case).                                                 *)

StringOrder == <<"Adams", "Douglas", "IA", "Lancaster", "NE", "ne">>

str_rank(x) == CHOOSE i \in DOMAIN StringOrder : StringOrder[i] = x

\* The missing value in a column of strings.
NaNCell == "NaN"
isna(cell) == cell = NaNCell

\* Python's None where a string or a number is expected.
NoneStr == "None"
NoneNum == [none |-> TRUE]

\* dict.get(k, default)
dict_get(d, k, default) == IF k \in DOMAIN d THEN d[k] ELSE default

\* dict(zip(keys, values)): a later pair replaces an earlier one.
dict_zip(keys, values) ==
    [k \in Range(keys) |->
        values[CHOOSE i \in DOMAIN keys :
                  keys[i] = k /\ \A j \in DOMAIN keys : keys[j] = k => j <= i]]

----------------------------------------------------------------------------
(* Series.median(), Series.min(), Series.max(), count: NaN is skipped.      *)

\* The cells of `cells` at the positions `rows` (a sequence of positions).
take(cells, rows) == [k \in DOMAIN rows |-> cells[rows[k]]]

\* Where position i goes in `order`, a sequence of positions already
\* ascending by key: before the first position whose key is greater.
RECURSIVE insert_sorted(_, _, _)
insert_sorted(i, order, keys) ==
    IF order = <<>> THEN <<i>>
    ELSE IF keys[i] < keys[Head(order)] THEN <<i>> \o order
    ELSE <<Head(order)>> \o insert_sorted(i, Tail(order), keys)

\* argsort: the positions of `keys` (integers) in ascending order of key.
RECURSIVE argsort_upto(_, _)
argsort_upto(keys, n) ==
    IF n = 0 THEN <<>> ELSE insert_sorted(n, argsort_upto(keys, n - 1), keys)

argsort(keys) == argsort_upto(keys, Len(keys))

\* sorted(s) for a sequence of integers.
sort_ints(s) == take(s, argsort(s))

\* The values of the cells that are not NaN, in order.
RECURSIVE dropna(_)
dropna(cells) ==
    IF cells = <<>> THEN <<>>
    ELSE (IF Head(cells).nan THEN <<>> ELSE <<Head(cells).v>>) \o dropna(Tail(cells))

\* The middle value of the sorted non-NaN values, or the mean of the two
\* middle values; NaN when there is none.
median(cells) ==
    LET vals == sort_ints(dropna(cells))
        n == Len(vals)
    IN  IF n = 0 THEN NaN
        ELSE IF n % 2 = 1 THEN Num(vals[(n + 1) \div 2])
        ELSE Num((vals[n \div 2] + vals[(n \div 2) + 1]) \div 2)

series_min(cells) ==
    LET vals == Range(dropna(cells))
    IN  IF vals = {} THEN NaN ELSE Num(CHOOSE v \in vals : \A w \in vals : v <= w)

series_max(cells) ==
    LET vals == Range(dropna(cells))
    IN  IF vals = {} THEN NaN ELSE Num(CHOOSE v \in vals : \A w \in vals : w <= v)

\* ("county", "count"): the cells of a column of strings that are not missing.
count(cells) == Cardinality({i \in DOMAIN cells : ~isna(cells[i])})

----------------------------------------------------------------------------
(* income.groupby("state").agg(...).reset_index()                           *)

\* The group keys: the distinct state cells that are not missing, ascending.
RECURSIVE set_to_seq(_)
set_to_seq(S) ==
    IF S = {} THEN <<>>
    ELSE LET x == CHOOSE y \in S : TRUE IN <<x>> \o set_to_seq(S \ {x})

group_keys(df) ==
    LET found == set_to_seq({c \in Range(series(df, State)) :
                                ~isna(c)})
    IN  take(found, argsort([k \in DOMAIN found |-> str_rank(found[k])]))

\* The rows of a group, in table order.
group_rows(df, key) ==
    LET st == series(df, State)
    IN  filter_positions(Len(st), 1, {i \in DOMAIN st : st[i] = key})

groupby_agg(df) ==
    LET keys == group_keys(df)
        county == series(df, County)
        i1989 == series(df, Income1989)
        i2015 == series(df, Income2015)
    IN  [g \in DOMAIN keys |->
           LET rows == group_rows(df, keys[g])
           IN  [state |-> keys[g],
                median_2015 |-> median(take(i2015, rows)),
                median_1989 |-> median(take(i1989, rows)),
                n_counties |-> count(take(county, rows))]]

\* state_medians.set_index("state")[field].to_dict()
med_2015_by_alpha2 ==
    [k \in {state_medians[g].state : g \in DOMAIN state_medians} |->
        (CHOOSE r \in Range(state_medians) : r.state = k).median_2015]
med_1989_by_alpha2 ==
    [k \in {state_medians[g].state : g \in DOMAIN state_medians} |->
        (CHOOSE r \in Range(state_medians) : r.state = k).median_1989]

----------------------------------------------------------------------------
(* The colour scale and the per-feature callbacks.                          *)

medians_2015 == [g \in DOMAIN state_medians |-> state_medians[g].median_2015]

\* vals.min(), vals.max() over the 2015 medians
vmin == series_min(medians_2015)
vmax == series_max(medians_2015)

ValueError == [raised |-> "ValueError"]

\* colormap(x): the place of x on the scale from vmin to vmax, as a fraction
\* num/den, clamped at both ends.  A NaN has no place on the scale: the
\* conversion of the interpolated colour to integers raises.
colormap(x) ==
    IF x.nan THEN ValueError
    ELSE IF x.v <= vmin.v THEN [num |-> 0, den |-> 1]
    ELSE IF x.v >= vmax.v THEN [num |-> 1, den |-> 1]
    ELSE [num |-> x.v - vmin.v, den |-> vmax.v - vmin.v]

NoDataStyle == [fillOpacity |-> "0.2", weight |-> "0.5", color |-> "gray"]

\* The value style_function looks up for a feature name.
style_value(name) ==
    dict_get(med_2015_by_alpha2, dict_get(name_to_alpha2, name, NoneStr), NoneNum)

\* A style_function that looks the median up with on_each_feature's default,
\* float("nan"), in place of None: what the lookup must differ from for a
\* feature without data to get the no-data style.
style_function_nan_default(name) ==
    LET value == dict_get(med_2015_by_alpha2,
                          dict_get(name_to_alpha2, name, NoneStr), NaN)
    IN  IF colormap(value) = ValueError THEN ValueError
        ELSE [fillColor |-> colormap(value), fillOpacity |-> "0.8",
              weight |-> "0.7", color |-> "white"]

\* style_function(feature); ValueError when colormap raises.
style_function(name) ==
    LET value == style_value(name)
    IN  IF value = NoneNum THEN NoDataStyle
        ELSE IF colormap(value) = ValueError THEN ValueError
        ELSE [fillColor |-> colormap(value), fillOpacity |-> "0.8",
              weight |-> "0.7", color |-> "white"]

FormatError == [raised |-> "TypeError"]

\* f"{v:,.0f}": a float is rounded to a whole number ("nan" for NaN); None
\* does not accept the format.  The medians of the modelled tables are whole.
format_usd(v) ==
    IF v = NoneNum THEN FormatError
    ELSE IF v.nan THEN [text |-> "nan"]
    ELSE [text |-> "number", rounded |-> v.v]

\* on_each_feature(feature, layer): the tooltip's content.
on_each_feature(name) ==
    LET a2 == dict_get(name_to_alpha2, name, NoneStr)
        v2015 == dict_get(med_2015_by_alpha2, a2, NaN)
        v1989 == dict_get(med_1989_by_alpha2, a2, NaN)
    IN  IF FormatError \in {format_usd(v2015), format_usd(v1989)} THEN FormatError
        ELSE [name |-> name, v2015 |-> format_usd(v2015), v1989 |-> format_usd(v1989)]

----------------------------------------------------------------------------
(* The county table of the chosen state.                                    *)

MedianLabel == "- State Median -"

\* The rows of the state in table order, without .sort_values("County").
df_state_unsorted(df, chosen) ==
    LET county == series(df, County)
        i1989 == series(df, Income1989)
        i2015 == series(df, Income2015)
        order == filter_positions(Len(county), 1,
                     {i \in DOMAIN county : series(df, State)[i] = chosen})
    IN  [k \in DOMAIN order |->
            [County |-> county[order[k]],
             Income1989 |-> i1989[order[k]],
             Income2015 |-> i2015[order[k]]]]

\* income[income["state"] == chosen][[...]].sort_values("County"): the rows
\* of the state ascending by county name, rows without a name last.  Rows
\* with the same name keep their order here; pandas' order among them is a
\* function of the input as well.
df_state(df, chosen) ==
    LET county == series(df, County)
        i1989 == series(df, Income1989)
        i2015 == series(df, Income2015)
        rows == group_rows(df, chosen)
        named == filter_positions(Len(rows), 1,
                     {k \in DOMAIN rows : ~isna(county[rows[k]])})
        unnamed == filter_positions(Len(rows), 1,
                     {k \in DOMAIN rows : isna(county[rows[k]])})
        keys == [k \in DOMAIN named |-> str_rank(county[rows[named[k]]])]
        order == take(rows, take(named, argsort(keys)) \o unnamed)
    IN  [k \in DOMAIN order |->
            [County |-> county[order[k]],
             Income1989 |-> i1989[order[k]],
             Income2015 |-> i2015[order[k]]]]

\* pd.concat([df_state, median_row], ignore_index=True)
with_median_row(table) ==
    Append(table,
           [County |-> MedianLabel,
            Income1989 |-> median([k \in DOMAIN table |-> table[k].Income1989]),
            Income2015 |-> median([k \in DOMAIN table |-> table[k].Income2015])])

----------------------------------------------------------------------------
(* The remote data: the inputs of a run.                                    *)

MaxRows == 3
MaxFeatures == 3

Unset == <<"Unset">>

column(name, cells) == [name |-> name, cells |-> cells]

\* Cell profiles of an income column of two rows: 2, 1 and 0 cells parse.
Profiles == {<<"10", "20">>, <<"10", "abc">>, <<"abc", "NaN">>}

\* Headers that resolve no field.
Absent2015 == <<"i", "n", "c", "o", "m", "e", "-", "-", "2", "0", "1", "5">>
Absent1989 == <<"i", "n", "c", "o", "m", "e", "-", "1", "9", "8", "9", "a", "b">>
AbsentState == <<"r", "e", "g", "i", "o", "n">>
AbsentCounty == <<"p", "a", "r", "i", "s", "h">>

\* Headers of the 2015 income column: "income-2015", "Income_2015",
\* "income<TAB>2015", "income2015", or the absent "income--2015".
Headers2015 ==
    {<<"i", "n", "c", "o", "m", "e", "-", "2", "0", "1", "5">>,
     <<"I", "n", "c", "o", "m", "e", "_", "2", "0", "1", "5">>,
     <<"i", "n", "c", "o", "m", "e", "\t", "2", "0", "1", "5">>,
     <<"i", "n", "c", "o", "m", "e", "2", "0", "1", "5">>,
     Absent2015}

\* Headers of the 1989 income columns, one column or two: "income-1989",
\* "income-1989a", "INCOME 1989B", the absent "income-1989ab", the pairs
\* ("income-1989", "income-1989a") and ("income-1989a", "INCOME 1989B"), and
\* ("income-1989", " income-1989"), which strip() makes equal.
Headers1989 ==
    {<<<<"i", "n", "c", "o", "m", "e", "-", "1", "9", "8", "9">>>>,
     <<<<"i", "n", "c", "o", "m", "e", "-", "1", "9", "8", "9", "a">>>>,
     <<<<"I", "N", "C", "O", "M", "E", " ", "1", "9", "8", "9", "B">>>>,
     <<<<"i", "n", "c", "o", "m", "e", "-", "1", "9", "8", "9">>,
       <<"i", "n", "c", "o", "m", "e", "-", "1", "9", "8", "9", "a">>>>,
     <<<<"i", "n", "c", "o", "m", "e", "-", "1", "9", "8", "9", "a">>,
       <<"I", "N", "C", "O", "M", "E", " ", "1", "9", "8", "9", "B">>>>,
     <<<<"i", "n", "c", "o", "m", "e", "-", "1", "9", "8", "9">>,
       <<" ", "i", "n", "c", "o", "m", "e", "-", "1", "9", "8", "9">>>>,
     <<Absent1989>>}

\* Headers of the state columns: "state", "State", "STATE_ABBR", "St-ate",
\* ("stateabbr", "state"), ("state", "STATE"), or the absent "region".
HeadersState ==
    {<<<<"s", "t", "a", "t", "e">>>>,
     <<<<"S", "t", "a", "t", "e">>>>,
     <<<<"S", "T", "A", "T", "E", "_", "A", "B", "B", "R">>>>,
     <<<<"S", "t", "-", "a", "t", "e">>>>,
     <<<<"s", "t", "a", "t", "e", "a", "b", "b", "r">>,
       <<"s", "t", "a", "t", "e">>>>,
     <<<<"s", "t", "a", "t", "e">>,
       <<"S", "T", "A", "T", "E">>>>,
     <<AbsentState>>}

\* Headers of the county column: "county", " County ", "County Name",
\* "county_name", or the absent "parish".
HeadersCounty ==
    {<<<<"c", "o", "u", "n", "t", "y">>>>,
     <<<<" ", "C", "o", "u", "n", "t", "y", " ">>>>,
     <<<<"C", "o", "u", "n", "t", "y", " ", "N", "a", "m", "e">>>>,
     <<<<"c", "o", "u", "n", "t", "y", "_", "n", "a", "m", "e">>>>,
     <<AbsentCounty>>}

\* A table of two rows under the given headers; the 1989 columns carry the
\* given cell profiles.
header_table(h2015, h1989, p1989, hstate, hcounty) ==
    <<column(h2015, <<"40", "60">>)>>
    \o [k \in DOMAIN h1989 |-> column(h1989[k], p1989[k])]
    \o [k \in DOMAIN hstate |-> column(hstate[k], <<"NE", "IA">>)]
    \o [k \in DOMAIN hcounty |-> column(hcounty[k], <<"Lancaster", "Douglas">>)]

\* A table with the canonical headers and the given rows.
row_table(rows) ==
    <<column(State, [k \in DOMAIN rows |-> rows[k].state]),
      column(County, [k \in DOMAIN rows |-> rows[k].county]),
      column(<<"i", "n", "c", "o", "m", "e", "-", "1", "9", "8", "9", "a">>,
             [k \in DOMAIN rows |-> rows[k].i1989]),
      column(Income2015, [k \in DOMAIN rows |-> rows[k].i2015])>>

DefaultIncome ==
    row_table(<<[state |-> "NE", county |-> "Lancaster", i1989 |-> "50", i2015 |-> "40"],
                [state |-> "NE", county |-> "Douglas", i1989 |-> "60", i2015 |-> "60"],
                [state |-> "IA", county |-> "Adams", i1989 |-> "10", i2015 |-> "40"]>>)

abbr_table(hname, ha2) ==
    <<column(hname, <<"Nebraska", "Iowa", "Kansas">>),
      column(ha2, <<"NE", "IA", "KS">>)>>

HeadersName == {<<"n", "a", "m", "e">>,
                <<"S", "t", "a", "t", "e">>,
                <<"s", "t", "a", "t", "e", "_", "n", "a", "m", "e">>,
                <<"F", "u", "l", "l", " ", "N", "a", "m", "e">>}

HeadersAlpha2 == {<<"a", "b", "b", "r", "e", "v", "i", "a", "t", "i", "o", "n">>,
                  <<"A", "l", "p", "h", "a", "-", "2">>,
                  <<"a", "l", "p", "h", "a", "_", "2">>,
                  <<"a", "b", "b", "r">>,
                  <<"C", "o", "d", "e">>,
                  <<"p", "o", "s", "t", "a", "l">>}

DefaultAbbrs == abbr_table(Name, <<"a", "b", "b", "r", "e", "v", "i", "a", "t", "i", "o", "n">>)

FeatureNames == {"Nebraska", "Iowa", "Kansas", "Atlantis"}
DefaultGeo == <<"Nebraska", "Atlantis", "Kansas", "Iowa">>

input(inc, ab, geo) == [csv |-> inc, state_list |-> ab, states_geo |-> geo]

\* Seq of length 0..n over S.
seqs_upto(S, n) == UNION {[1..k -> S] : k \in 0..n}

\* The CSV's headers vary: the income headers with their cells, the state
\* and county headers, and every combination of a present and an absent
\* field.
HeaderInputs ==
    {input(header_table(h2015, h1989, p1989, <<State>>, <<County>>),
           DefaultAbbrs, DefaultGeo) :
        h2015 \in Headers2015,
        <<h1989, p1989>> \in UNION {{h} \X [DOMAIN h -> Profiles] : h \in Headers1989}}
    \cup {input(header_table(Income2015, <<Income1989>>, <<<<"10", "20">>>>,
                             hstate, hcounty), DefaultAbbrs, DefaultGeo) :
        hstate \in HeadersState, hcounty \in HeadersCounty}
    \cup {input(header_table(h2015, <<h1989>>, <<<<"10", "20">>>>, <<hstate>>, <<hcounty>>),
                DefaultAbbrs, DefaultGeo) :
        h2015 \in {Income2015, Absent2015},
        h1989 \in {Income1989, Absent1989},
        hstate \in {State, AbsentState},
        hcounty \in {County, AbsentCounty}}

\* The state list's headers vary.
AbbrInputs ==
    {input(DefaultIncome, abbr_table(hname, ha2), DefaultGeo) :
        hname \in HeadersName, ha2 \in HeadersAlpha2}
    \cup {input(DefaultIncome,
                <<column(<<"s", "t", "a", "t", "e">>, <<"Nebraska", "Iowa">>),
                  column(<<"C", "o", "d", "e">>, <<"NE", "IA">>),
                  column(Name, <<"Nebraska", "Atlantis">>),
                  column(<<"a", "b", "b", "r">>, <<"ne", "NE">>)>>,
                DefaultGeo)}

\* The features of the GeoJSON vary.
GeoInputs ==
    {input(DefaultIncome, DefaultAbbrs, geo) : geo \in seqs_upto(FeatureNames, MaxFeatures)}

\* The 1989 incomes vary.
Rows1989 ==
    [state : {"NE", "IA"}, county : {"Douglas"},
     i1989 : {"10", "20", "30", "abc"}, i2015 : {"40"}]
\* The 2015 incomes vary.
Rows2015 ==
    [state : {"NE", "IA"}, county : {"Adams"},
     i1989 : {"10"}, i2015 : {"40", "60", "NaN"}]
\* The county names vary.
RowsCounty ==
    [state : {"NE", "IA"}, county : {"Adams", "Lancaster", "NaN"},
     i1989 : {"50"}, i2015 : {"60"}]
\* The state cells vary: missing ones, and codes that differ in case only.
RowsState ==
    [state : {"NE", "ne", "IA", "NaN"}, county : {"Lancaster"},
     i1989 : {"30"}, i2015 : {"50"}]

RowInputs ==
    {input(row_table(rows), DefaultAbbrs, DefaultGeo) :
        rows \in seqs_upto(Rows1989, MaxRows) \cup seqs_upto(Rows2015, MaxRows)
                 \cup seqs_upto(RowsCounty, MaxRows) \cup seqs_upto(RowsState, MaxRows)}

Inputs == HeaderInputs \cup AbbrInputs \cup GeoInputs \cup RowInputs

----------------------------------------------------------------------------
(* The run.                                                                 *)

remote == <<csv, state_list, states_geo>>

Init ==
    /\ \E inp \in Inputs :
         /\ csv = inp.csv
         /\ state_list = inp.state_list
         /\ states_geo = inp.states_geo
    /\ pc = "load_income"
    /\ income = <<>> /\ abbrs = <<>>
    /\ c2015 = Unset /\ c1989 = Unset /\ cstate = Unset /\ ccounty = Unset
    /\ name_col = Unset /\ a2_col = Unset
    /\ errors = <<>>
    /\ name_to_alpha2 = <<>>
    /\ state_medians = <<>>
    /\ styles = <<>> /\ tooltips = <<>> /\ scale_args = <<>>
    /\ attempted = <<>> /\ delivered = {}
    /\ chosen_state = NoneStr
    /\ df_show = <<>>

\* income.columns = [c.strip() for c in income.columns]
stripped(df) == [i \in DOMAIN df |-> column(strip(df[i].name), df[i].cells)]

\* The `missing` list of load_data.
missing_fields(p2015, p1989, pstate, pcounty) ==
    (IF p2015 = None THEN <<"income-2015*">> ELSE <<>>)
    \o (IF p1989 = None THEN <<"income-1989* (may be income-1989a/b)">> ELSE <<>>)
    \o (IF pstate = None THEN <<"state">> ELSE <<>>)
    \o (IF pcounty = None THEN <<"county">> ELSE <<>>)

\* income[c] = pd.to_numeric(income[c], errors="coerce")
numeric_column(df, c) ==
    assign(df, c, [k \in DOMAIN series(df, c) |-> to_numeric(series(df, c)[k])])

\* load_data, lines 15-58: read the CSV, resolve its columns, stop when one is
\* missing, rename and convert.
LoadIncome ==
    /\ pc = "load_income"
    /\ LET df == stripped(csv)
           p2015 == pick_income_col(df, 2015)
           p1989 == pick_income_col(df, 1989)
           pstate == first_match(df, StateOptions)
           pcounty == first_match(df, CountyOptions)
           missing == missing_fields(p2015, p1989, pstate, pcounty)
           renamed == rename(df, (p2015 :> Income2015) @@ (p1989 :> Income1989)
                                 @@ (pstate :> State) @@ (pcounty :> County))
       IN  IF p2015 = TypeError
           THEN /\ pc' = "raise@29"
                /\ income' = df
                /\ UNCHANGED <<c2015, c1989, cstate, ccounty, errors>>
           ELSE IF p1989 = TypeError
           THEN /\ pc' = "raise@30"
                /\ income' = df
                /\ c2015' = p2015
                /\ UNCHANGED <<c1989, cstate, ccounty, errors>>
           ELSE /\ c2015' = p2015 /\ c1989' = p1989
                /\ cstate' = pstate /\ ccounty' = pcounty
                /\ IF missing # <<>>
                   THEN /\ errors' = Append(errors,
                               [text |-> "Input CSV is missing expected columns",
                                missing |-> missing, found |-> columns(df)])
                        /\ income' = df
                        /\ pc' = "stop@49"
                   ELSE /\ UNCHANGED errors
                        /\ IF Cardinality(positions(renamed, Income2015)) # 1
                           THEN income' = renamed /\ pc' = "raise@57"
                           ELSE IF Cardinality(positions(renamed, Income1989)) # 1
                           THEN /\ income' = numeric_column(renamed, Income2015)
                                /\ pc' = "raise@58"
                           ELSE /\ income' = numeric_column(
                                       numeric_column(renamed, Income2015), Income1989)
                                /\ pc' = "load_abbrs"
    /\ UNCHANGED <<remote, abbrs, name_col, a2_col, name_to_alpha2, state_medians,
                   styles, tooltips, scale_args, attempted, delivered, chosen_state,
                   df_show>>

\* load_data, lines 60-87: fetch the polygons and the state list, resolve the
\* list's two columns, stop when one is missing, build the name -> code dict.
LoadAbbrs ==
    /\ pc = "load_abbrs"
    /\ LET pname == find_col(state_list, NameAliases)
           pa2 == find_col(state_list, Alpha2Aliases)
           renamed == rename(state_list, (pname :> Name) @@ (pa2 :> Alpha2))
       IN  /\ name_col' = pname
           /\ a2_col' = pa2
           /\ IF pname = None \/ pa2 = None
              THEN /\ errors' = Append(errors,
                          [text |-> "Unexpected schema for state list",
                           missing |-> <<>>, found |-> columns(state_list)])
                   /\ abbrs' = state_list
                   /\ pc' = "stop@83"
                   /\ UNCHANGED name_to_alpha2
              ELSE /\ abbrs' = renamed
                   /\ name_to_alpha2' = dict_zip(series(renamed, Name),
                                                 series(renamed, Alpha2))
                   /\ pc' = "aggregate"
                   /\ UNCHANGED errors
    /\ UNCHANGED <<remote, income, c2015, c1989, cstate, ccounty, state_medians,
                   styles, tooltips, scale_args, attempted, delivered, chosen_state,
                   df_show>>

\* Lines 92-111: the per-state medians and the colour scale.  groupby needs
\* one column labelled "state", the named aggregation one labelled "county".
Aggregate ==
    /\ pc = "aggregate"
    /\ IF Cardinality(positions(income, State)) # 1
          \/ Cardinality(positions(income, County)) # 1
       THEN pc' = "raise@92" /\ UNCHANGED state_medians
       ELSE state_medians' = groupby_agg(income) /\ pc' = "style"
    /\ UNCHANGED <<remote, income, abbrs, c2015, c1989, cstate, ccounty, name_col,
                   a2_col, errors, name_to_alpha2, styles, tooltips, scale_args,
                   attempted, delivered, chosen_state, df_show>>

\* Lines 117-146: folium.GeoJson applies style_function and on_each_feature
\* to the next feature.
StyleFeature ==
    /\ pc = "style"
    /\ Len(styles) < Len(states_geo)
    /\ LET name == states_geo[Len(styles) + 1]
           value == style_value(name)
           style == style_function(name)
           tip == on_each_feature(name)
       IN  /\ scale_args' = IF value = NoneNum THEN scale_args
                            ELSE Append(scale_args, value)
           /\ IF style = ValueError
              THEN pc' = "raise@123" /\ UNCHANGED <<styles, tooltips>>
              ELSE IF tip = FormatError
              THEN pc' = "raise@133" /\ UNCHANGED <<styles, tooltips>>
              ELSE /\ styles' = Append(styles, style)
                   /\ tooltips' = Append(tooltips, tip)
                   /\ pc' = "style"
    /\ UNCHANGED <<remote, income, abbrs, c2015, c1989, cstate, ccounty, name_col,
                   a2_col, errors, name_to_alpha2, state_medians, attempted, delivered,
                   chosen_state, df_show>>

\* Lines 148-152: the colour bar and the bounds, once every feature is done.
FinishMap ==
    /\ pc = "style"
    /\ Len(styles) = Len(states_geo)
    /\ pc' = "deliver"
    /\ UNCHANGED <<remote, income, abbrs, c2015, c1989, cstate, ccounty, name_col,
                   a2_col, errors, name_to_alpha2, state_medians, styles, tooltips,
                   scale_args, attempted, delivered, chosen_state, df_show>>

\* A delivery without the try's else-less success path: the static delivery
\* follows the interactive one whether or not it raised.
Deliver_then_fallback ==
    /\ pc = "deliver"
    /\ attempted' = Append(attempted, "st_folium")
    /\ \/ delivered' = delivered \cup {"st_folium"} /\ pc' = "fallback"
       \/ pc' = "fallback" /\ UNCHANGED delivered
    /\ UNCHANGED <<csv, state_list, states_geo, income, abbrs, c2015, c1989, cstate,
                   ccounty, name_col, a2_col, errors, name_to_alpha2, state_medians,
                   styles, tooltips, scale_args, chosen_state, df_show>>

\* Lines 154-159: st_folium(...) returns, or raises an Exception that the
\* except clause catches.
Deliver ==
    /\ pc = "deliver"
    /\ attempted' = Append(attempted, "st_folium")
    /\ \/ delivered' = delivered \cup {"st_folium"} /\ pc' = "table"
       \/ pc' = "fallback" /\ UNCHANGED delivered
    /\ UNCHANGED <<remote, income, abbrs, c2015, c1989, cstate, ccounty, name_col,
                   a2_col, errors, name_to_alpha2, state_medians, styles, tooltips,
                   scale_args, chosen_state, df_show>>

\* Lines 160-162: m.get_root().render() and st.components.v1.html(...) return,
\* or one of them raises; nothing catches that.
Fallback ==
    /\ pc = "fallback"
    /\ attempted' = Append(attempted, "html")
    /\ \/ delivered' = delivered \cup {"html"} /\ pc' = "table"
       \/ pc' = "raise@162" /\ UNCHANGED delivered
    /\ UNCHANGED <<remote, income, abbrs, c2015, c1989, cstate, ccounty, name_col,
                   a2_col, errors, name_to_alpha2, state_medians, styles, tooltips,
                   scale_args, chosen_state, df_show>>

\* sorted(state_medians["state"].tolist()) as the set the user chooses from
state_options == {state_medians[g].state : g \in DOMAIN state_medians}

\* Lines 165-185: the user's state and its county table.  Without an option
\* the selectbox returns None and no row is equal to it.
Table ==
    /\ pc = "table"
    /\ \E chosen \in (IF state_options = {} THEN {NoneStr} ELSE state_options) :
         /\ chosen_state' = chosen
         /\ df_show' = with_median_row(df_state(income, chosen))
    /\ pc' = "done"
    /\ UNCHANGED <<remote, income, abbrs, c2015, c1989, cstate, ccounty, name_col,
                   a2_col, errors, name_to_alpha2, state_medians, styles, tooltips,
                   scale_args, attempted, delivered>>

Next ==
    \/ LoadIncome
    \/ LoadAbbrs
    \/ Aggregate
    \/ StyleFeature
    \/ FinishMap
    \/ Deliver
    \/ Fallback
    \/ Table

Spec == Init /\ [][Next]_vars

TypeOK ==
    pc \in {"load_income", "load_abbrs", "aggregate", "style", "deliver", "fallback",
            "table", "done", "stop@49", "stop@83", "raise@29", "raise@30", "raise@57",
            "raise@58", "raise@92", "raise@123", "raise@133", "raise@162"}

----------------------------------------------------------------------------
(* What the claims speak of.                                                *)

\* The headers load_data works on: the CSV's, stripped.
csv_columns == columns(stripped(csv))

\* A name reduced as the specification's generic matching reduces it:
\* lowercased, with spaces, underscores and hyphens removed.
Normalized(s) ==
    LET kept(ch) == ch \notin {" ", "_", "-"}
    IN  SelectSeq(lower(s), kept)

\* Does `result` answer "the column of the first alias, in list order, that
\* has a normalized match among `cols`; not-found only when there is none"?
GenericMatch(cols, aliases, result) ==
    LET matched == {k \in DOMAIN aliases :
                      \E i \in DOMAIN cols : Normalized(cols[i]) = Normalized(aliases[k])}
    IN  IF matched = {} THEN result = None
        ELSE LET first == CHOOSE k \in matched : \A j \in matched : k <= j
             IN  /\ result \in Range(cols)
                 /\ Normalized(result) = Normalized(aliases[first])

IncomeResolved == pc \notin {"load_income", "raise@29", "raise@30"}
AbbrsResolved == name_col # Unset

\* C1.  Generic column matching: for the state code and the county name of
\* the income table (first_match) and for the full state name and the
\* abbreviation of the state list (find_col), the resolver returns the column
\* of the first alias, in alias-list order, whose normalized form equals the
\* normalized form of an existing column name, and not-found only when no
\* alias has such a match.
C1_GenericColumnMatching ==
    /\ IncomeResolved =>
         /\ GenericMatch(csv_columns, StateOptions, cstate)
         /\ GenericMatch(csv_columns, CountyOptions, ccounty)
    /\ AbbrsResolved =>
         /\ GenericMatch(columns(state_list), NameAliases, name_col)
         /\ GenericMatch(columns(state_list), Alpha2Aliases, a2_col)

\* The part of C1 that is about find_col alone.
C1_FindColMatching ==
    AbbrsResolved =>
        /\ GenericMatch(columns(state_list), NameAliases, name_col)
        /\ GenericMatch(columns(state_list), Alpha2Aliases, a2_col)

\* The required fields that did not resolve, as far as the run looked.
Unresolved ==
    {f \in {"income-2015", "income-1989", "state", "county"} :
        IncomeResolved /\ (CASE f = "income-2015" -> c2015
                             [] f = "income-1989" -> c1989
                             [] f = "state" -> cstate
                             [] f = "county" -> ccounty) = None}
    \cup {f \in {"name", "alpha2"} :
            AbbrsResolved /\ (IF f = "name" THEN name_col ELSE a2_col) = None}

\* The field a label of the `missing` list stands for.
FieldOfLabel(label) ==
    CASE label = "income-2015*" -> "income-2015"
      [] label = "income-1989* (may be income-1989a/b)" -> "income-1989"
      [] OTHER -> label

Halted == pc \in {"stop@49", "stop@83"}

NothingRendered ==
    /\ state_medians = <<>> /\ name_to_alpha2 = <<>>
    /\ styles = <<>> /\ tooltips = <<>>
    /\ attempted = <<>> /\ delivered = {}
    /\ df_show = <<>>

\* C2.  Schema mismatch: whenever a required field (2015 income, 1989 income,
\* state code, county name, full state name, abbreviation) does not resolve,
\* load_data reports which fields are missing together with the full list of
\* the columns it found, and the run halts there: nothing is aggregated or
\* rendered and no data is returned.
C2_SchemaMismatchHalts ==
    Unresolved # {} =>
        /\ Halted
        /\ NothingRendered
        /\ Len(errors) = 1
        /\ {FieldOfLabel(l) : l \in Range(errors[1].missing)} = Unresolved
        /\ errors[1].found = (IF pc = "stop@49" THEN csv_columns
                              ELSE columns(state_list))

\* The part of C2 that holds at both stops: the run halts, nothing is
\* rendered, and the columns found are listed.
C2_HaltsAndListsColumns ==
    /\ Unresolved # {} =>
         /\ Halted
         /\ NothingRendered
         /\ Len(errors) = 1
         /\ errors[1].found = (IF pc = "stop@49" THEN csv_columns
                               ELSE columns(state_list))
    /\ Halted => Unresolved # {}
    /\ pc = "stop@49" =>
         {FieldOfLabel(l) : l \in Range(errors[1].missing)} = Unresolved

\* The names "income" + sep + year + suffix, in lower case, for an optional
\* separator out of `seps` and an optional letter as suffix.
PatternNames(year_text, seps) ==
    {<<"i", "n", "c", "o", "m", "e">> \o sep \o year_text \o suffix :
        sep \in {<<>>} \cup {<<ch>> : ch \in seps},
        suffix \in {<<>>} \cup {<<ch>> : ch \in Range(LowerCase)}}

\* The separators the claim names, and the ones the pattern's [\s_-] admits.
ClaimedSeparators == {" ", "_", "-"}
Claimed2015 == PatternNames(<<"2", "0", "1", "5">>, ClaimedSeparators)
Claimed1989 == PatternNames(<<"1", "9", "8", "9">>, ClaimedSeparators)
Admitted2015 == PatternNames(<<"2", "0", "1", "5">>, ClaimedSeparators \cup WhiteSpace)
Admitted1989 == PatternNames(<<"1", "9", "8", "9">>, ClaimedSeparators \cup WhiteSpace)

\* The positions of the columns whose name, in lower case at `low`, is one
\* of `names`.
Matching(low, names) == {i \in DOMAIN low : low[i] \in names}

\* The CSV's headers in lower case.
csv_lower == LET cols == csv_columns IN [i \in DOMAIN cols |-> lower(cols[i])]

\* How many cells of the CSV's column i read as a number.
Parseable(i) ==
    Cardinality({k \in DOMAIN csv[i].cells : csv[i].cells[k] \in DOMAIN NumeralValue})

\* `result` is None exactly when none of the columns at `matching` exists, and
\* otherwise one of them that no other of them has more parseable cells than.
PickedAmong(matching, result) ==
    /\ result = None <=> matching = {}
    /\ result # None =>
         \E i \in matching :
            /\ strip(csv[i].name) = result
            /\ \A j \in matching : Parseable(j) <= Parseable(i)

Income1989a == <<"i", "n", "c", "o", "m", "e", "-", "1", "9", "8", "9", "a">>

RepeatedAmong(cols, matching) ==
    \E i \in matching : \E j \in DOMAIN cols : j # i /\ cols[j] = cols[i]

\* The first of the columns at `matching`, in header order, that none of them
\* has more parseable cells than.
FirstBest(cols, matching) ==
    LET best == {i \in matching : \A j \in matching : Parseable(j) <= Parseable(i)}
    IN  cols[CHOOSE i \in best : \A j \in best : i <= j]

Renamed ==
    /\ IncomeResolved
    /\ None \notin {c2015, c1989, cstate, ccounty}

\* C10.  After the rename step the table has exactly one column named each of
\* "income-2015", "income-1989", "state" and "county", and it is the resolved
\* one, also when several columns match the same year pattern or a column
\* that was not picked already bears a canonical name.
C10_CanonicalColumnsUnique ==
    Renamed =>
        \A f \in {<<Income2015, c2015>>, <<Income1989, c1989>>,
                  <<State, cstate>>, <<County, ccounty>>} :
            /\ Cardinality(positions(income, f[1])) = 1
            /\ positions(income, f[1]) = {i \in DOMAIN csv_columns : csv_columns[i] = f[2]}

\* The run got past the aggregation: state_medians is the Aggregator's output.
Aggregated ==
    pc \in {"style", "deliver", "fallback", "table", "done",
            "raise@123", "raise@133", "raise@162"}

\* The cells, as read, of the CSV's column that resolved to `resolved`.
RawCells(resolved) ==
    csv[CHOOSE i \in DOMAIN csv : csv_columns[i] = resolved].cells

\* The rows of the income table whose state cell is `code`.
RowsOf(code) ==
    LET st == RawCells(cstate) IN {k \in DOMAIN st : st[k] = code}

\* C4.  For every state code present in the income table, n_counties equals
\* the number of rows whose state equals that code, whether or not a field of
\* those rows, the county name included, is missing: rows are counted, not
\* valid values.
C4_CountyCountIsRowCount ==
    Aggregated =>
        \A g \in DOMAIN state_medians :
            state_medians[g].n_counties = Cardinality(RowsOf(state_medians[g].state))

\* x is the k-th smallest of the values val[i], i in `among`.
KthSmallest(x, k, among, val) ==
    /\ \E i \in among : val[i] = x
    /\ Cardinality({i \in among : val[i] < x}) < k
    /\ k <= Cardinality({i \in among : val[i] <= x})

\* m is the statistical median of the values val[i], i in `among`: the
\* middle one, or the mean of the two middle ones; null when there is none.
IsMedian(m, among, val) ==
    LET n == Cardinality(among)
    IN  IF n = 0 THEN m = NaN
        ELSE /\ ~m.nan
             /\ \E lo, hi \in {val[i] : i \in among} :
                  /\ KthSmallest(lo, (n + 1) \div 2, among, val)
                  /\ KthSmallest(hi, (n \div 2) + 1, among, val)
                  /\ 2 * m.v = lo + hi

\* m is the median of the cells of `cells`, as read from the CSV, that are
\* at `rows` and parse as numbers.
IsMedianOfParsed(m, rows, cells) ==
    IsMedian(m, {k \in rows : cells[k] \in DOMAIN NumeralValue},
             [k \in DOMAIN cells |->
                 IF cells[k] \in DOMAIN NumeralValue THEN NumeralValue[cells[k]] ELSE 0])

\* C5.  The Aggregator outputs exactly one StateAggregate per distinct state
\* code (exact string match), and for each state and each year independently
\* the median is the statistical median of the state's values that parse as
\* numbers; a state without such a value for a year has a null median.
C5_StateMedians ==
    Aggregated =>
        LET st == RawCells(cstate)
            raw2015 == RawCells(c2015)
            raw1989 == RawCells(c1989)
            codes == {st[k] : k \in DOMAIN st} \ {NaNCell}
        IN  /\ {state_medians[g].state : g \in DOMAIN state_medians} = codes
            /\ Len(state_medians) = Cardinality(codes)
            /\ \A g \in DOMAIN state_medians :
                 LET rows == {k \in DOMAIN st : st[k] = state_medians[g].state}
                 IN  /\ IsMedianOfParsed(state_medians[g].median_2015, rows, raw2015)
                     /\ IsMedianOfParsed(state_medians[g].median_1989, rows, raw1989)

\* A state with two rows whose 1989 values parse and differ and a row whose
\* 1989 value does not parse: its 1989 median is the mean of the two.
C5_Witness ==
    /\ Aggregated
    /\ \E g \in DOMAIN state_medians :
         LET rows == RowsOf(state_medians[g].state)
             raw1989 == RawCells(c1989)
             parsed == {k \in rows : raw1989[k] \in DOMAIN NumeralValue}
         IN  /\ Cardinality(rows) = 3
             /\ \E a, b \in parsed :
                  /\ parsed = {a, b}
                  /\ NumeralValue[raw1989[a]] < NumeralValue[raw1989[b]]
                  /\ 2 * state_medians[g].median_1989.v
                       = NumeralValue[raw1989[a]] + NumeralValue[raw1989[b]]

\* C9.  Whenever a fill colour is computed, the value passed to the colour
\* scale is a non-null number within [vmin, vmax]; a feature whose state is in
\* the aggregate with a null 2015 median gets the no-data style, so the colour
\* scale is never applied to a null.
C9_FillFromRealData ==
    /\ \A k \in DOMAIN scale_args :
         /\ ~scale_args[k].nan
         /\ ~vmin.nan /\ ~vmax.nan
         /\ vmin.v <= scale_args[k].v /\ scale_args[k].v <= vmax.v
    /\ pc # "raise@123"

\* A lookup miss: the feature's name is not in the abbreviation map, or its
\* code is not a key of the 2015-median aggregate.
Miss(name) ==
    \/ name \notin DOMAIN name_to_alpha2
    \/ name_to_alpha2[name] \notin {state_medians[g].state : g \in DOMAIN state_medians}

\* The no-data look: gray border, no fill colour, opacity 0.2.
IsNoData(style) ==
    /\ "fillColor" \notin DOMAIN style
    /\ style.color = "gray"
    /\ style.fillOpacity = "0.2"

\* C6.  A feature whose name is not in the abbreviation map, or whose code is
\* not a key of the 2015-median aggregate, gets the no-data style and a
\* tooltip; neither callback raises on it, rendering goes on past it, and the
\* other features get their own style and tooltip.
C6_LookupMiss ==
    /\ Len(styles) = Len(tooltips)
    /\ Len(styles) <= Len(states_geo)
    /\ \A k \in DOMAIN styles :
         /\ tooltips[k].name = states_geo[k]
         /\ IF Miss(states_geo[k]) THEN IsNoData(styles[k])
            ELSE "fillColor" \in DOMAIN styles[k]
    /\ pc \in {"raise@123", "raise@133"} => ~Miss(states_geo[Len(styles) + 1])
    /\ pc \in {"deliver", "fallback", "table", "done", "raise@162"}
         => Len(styles) = Len(states_geo)

\* The map is built: a feature absent from the abbreviation map and one whose
\* code has no aggregate are both followed by a feature that got a colour.
C6_Witness ==
    /\ pc = "deliver"
    /\ \E i, j, k \in DOMAIN styles :
         /\ i < k /\ j < k
         /\ states_geo[i] \notin DOMAIN name_to_alpha2
         /\ states_geo[j] \in DOMAIN name_to_alpha2 /\ Miss(states_geo[j])
         /\ IsNoData(styles[i]) /\ IsNoData(styles[j])
         /\ "fillColor" \in DOMAIN styles[k]

\* C7.  The displayed table is exactly the income table's rows of the chosen
\* state, as (county, income 1989, income 2015), ascending by county name
\* (rows without a name after the named ones), followed by exactly one
\* state-median row, last, whose two incomes are the medians of those rows'
\* non-null values; the order is a function of the input.
C7_CountyTable ==
    pc = "done" =>
        LET rows == RowsOf(chosen_state)
            county == RawCells(ccounty)
            raw1989 == RawCells(c1989)
            raw2015 == RawCells(c2015)
            n == Cardinality(rows)
            last == df_show[n + 1]
        IN  /\ Len(df_show) = n + 1
            /\ \E at \in [1..n -> rows] :
                 /\ \A i, j \in 1..n : at[i] = at[j] => i = j
                 /\ \A i \in 1..n :
                      /\ df_show[i].County = county[at[i]]
                      /\ df_show[i].Income1989 = to_numeric(raw1989[at[i]])
                      /\ df_show[i].Income2015 = to_numeric(raw2015[at[i]])
            /\ \A i, j \in 1..n :
                 i < j =>
                    \/ isna(df_show[j].County)
                    \/ /\ ~isna(df_show[i].County)
                       /\ str_rank(df_show[i].County) <= str_rank(df_show[j].County)
            /\ last.County = MedianLabel
            /\ IsMedianOfParsed(last.Income1989, rows, raw1989)
            /\ IsMedianOfParsed(last.Income2015, rows, raw2015)

\* Two rows of the chosen state stand in the CSV against the order of their
\* county names, and the table shows them in order, the median row after.
C7_Witness ==
    /\ pc = "done"
    /\ Len(df_show) = 3
    /\ \E k, l \in RowsOf(chosen_state) :
         /\ k < l
         /\ df_show[1].County = RawCells(ccounty)[l]
         /\ df_show[2].County = RawCells(ccounty)[k]
         /\ str_rank(df_show[1].County) < str_rank(df_show[2].County)
    /\ df_show[1].Income2015 # df_show[2].Income2015
    /\ 2 * df_show[3].Income2015.v = df_show[1].Income2015.v + df_show[2].Income2015.v

\* The interactive delivery was attempted and raised.
InteractiveRaised ==
    /\ "st_folium" \in Range(attempted)
    /\ "st_folium" \notin delivered

\* The map section is over: the run is at the state selector, past it, or
\* ended in the fallback.
MapSectionOver == pc \in {"table", "done", "raise@162"}

====
